---- MODULE Spec2Model ----
(***************************************************************************)
(* Model of the trojan listener wrapper (listener/listener.go) and of the  *)
(* connection rewinder it uses (utils/utils.go).                           *)
(*                                                                         *)
(* A Listener wraps a raw net.Listener.  Its loop() accepts raw            *)
(* connections and starts one sniff goroutine per connection.  The sniff   *)
(* goroutine reads up to HeaderLen+2 bytes, one Read call per position,    *)
(* and then forwards the connection to the proxy, sends it rewound through *)
(* the channel l.conns (from which Accept() receives), or closes it.       *)
(* Close() closes the channel l.closed.                                    *)
(*                                                                         *)
(* Positions in the Go code are 0-based; sequences here are 1-based, so    *)
(* the code's b[n] is b[c][n[c] + 1] and b[:k] is SubSeq(b[c], 1, k).       *)
(***************************************************************************)
EXTENDS Integers, Sequences, FiniteSets, TLC

(* ------------------------------ bounds --------------------------------- *)

\* trojan.HeaderLen (56 in the program), scaled down.
HeaderLen == 1
\* capacity of l.conns (make(chan net.Conn, 8) in the program), scaled down.
QueueCap == 1
\* number of raw connections the raw listener hands out.
MaxConns == 2
\* number of goroutines that call Close(), each once.
MaxClosers == 2
\* longest decrypted record a secure-transport connection buffers.
MaxRecord == 3

(* ----------------------------- constants ------------------------------- *)

\* the line-feed byte 0x0a the sniffer compares with.
LF == 10
\* the carriage-return byte of the X'0D0A' delimiter.
CR == 13

\* Bytes a peer sends: LF, CR and 'a' (97, a hex digit of a credential).
Byte == {LF, CR, 97}
\* The zero byte of a freshly made buffer: make([]byte, n) is zero-filled.
Zero == 0

Conn == 1 .. MaxConns
Closer == 1 .. MaxClosers

\* b := make([]byte, trojan.HeaderLen+2)
BufLen == HeaderLen + 2
MakeBuf == [i \in 1 .. BufLen |-> Zero]

\* The credential the Validator knows: HeaderLen bytes 'a'.
Cred == [i \in 1 .. HeaderLen |-> 97]
\* Upstream.Validate: a pure predicate on the candidate header.
Validate(h) == h = Cred

\* A well-formed session opening: credential, CR, LF.
GoodOpening == Cred \o <<CR, LF>>

IsPrefix(s, t) == Len(s) <= Len(t) /\ SubSeq(t, 1, Len(s)) = s

\* utils.NewRawConn(conn, read): a connection that serves `read` first and then
\* the reads of the wrapped connection.
NewRawConn(conn, read) == [conn |-> conn, r |-> read]

\* utils.RewindConn on a connection that is not a *tls.Conn.
RewindConn(conn, read) == NewRawConn(conn, read)

\* The value of a connection variable that holds no connection.
NoConn == [conn |-> 0, r |-> <<>>]

VARIABLES
    closed,      \* l.closed has been closed
    panicked,    \* the process panicked (close of closed channel)
    conns,       \* the content of the channel l.conns, oldest first
    loopPc,      \* "run" while loop() runs, "done" after it returned
    nconn,       \* raw connections accepted so far; they are numbered 1, 2, ...
    pc,          \* pc[c]: position of the sniff goroutine of connection c
    n,           \* n[c]: the loop index n of the goroutine
    b,           \* b[c]: the buffer b of the goroutine
    out,         \* out[c]: the rewound connection waiting to be sent
    recv,        \* recv[c]: the bytes the reads on c delivered so far, in order,
                 \* kept while c is open
    reads,       \* reads[c]: number of Read calls made on c by the sniffer
    path,        \* path[c]: the branch on which the sniffer decided
    nValidate,   \* nValidate[c]: calls of Upstream.Validate for c
    nHandle,     \* nHandle[c]: calls of Proxy.Handle for c
    hRet,        \* hRet[c]: what Proxy.Handle returned: "none", "nil", "err"
    nEnq,        \* nEnq[c]: completed sends of c into l.conns
    nClose,      \* nClose[c]: calls of c.Close() by the sniff goroutine
    cpc,         \* cpc[k]: position of the k-th caller of Close()
    lastAccept,  \* what the last Accept() call returned, and when
    delivered,   \* the connections Accept() returned, in order
    tlsPc,       \* a *tls.Conn under RewindConn: "reading" or "rewound"
    tlsInput,    \* its field input, a bytes.Reader: content s, read index i
    tlsRead,     \* the bytes read from it so far, in order
    tlsOld       \* input as it was when RewindConn was called

connVars == <<pc, n, b, out, recv, reads, path, nValidate, nHandle, hRet, nEnq, nClose>>
vars == <<closed, panicked, conns, loopPc, nconn, connVars, cpc, lastAccept, delivered>>
tlsVars == <<tlsPc, tlsInput, tlsRead, tlsOld>>

\* bytes.NewReader(nil): the input of a *tls.Conn before the first record.
EmptyReader == [s |-> <<>>, i |-> 0]

\* lastAccept before the first Accept() call returned.
NoAccept == [conn |-> NoConn, err |-> FALSE, closeReturned |-> FALSE]

\* NewListener followed by WrapListener's `go ln.loop()`.
Init ==
    /\ closed = FALSE
    /\ panicked = FALSE
    /\ conns = <<>>
    /\ loopPc = "run"
    /\ nconn = 0
    /\ pc = [c \in Conn |-> "none"]
    /\ n = [c \in Conn |-> 0]
    /\ b = [c \in Conn |-> MakeBuf]
    /\ out = [c \in Conn |-> NoConn]
    /\ recv = [c \in Conn |-> <<>>]
    /\ reads = [c \in Conn |-> 0]
    /\ path = [c \in Conn |-> "none"]
    /\ nValidate = [c \in Conn |-> 0]
    /\ nHandle = [c \in Conn |-> 0]
    /\ hRet = [c \in Conn |-> "none"]
    /\ nEnq = [c \in Conn |-> 0]
    /\ nClose = [c \in Conn |-> 0]
    /\ cpc = [k \in Closer |-> "idle"]
    /\ lastAccept = NoAccept
    /\ delivered = <<>>
    /\ tlsPc = "reading"
    /\ tlsInput = EmptyReader
    /\ tlsRead = <<>>
    /\ tlsOld = EmptyReader

\* Some Close() call has returned.
CloseReturned == \E k \in Closer : cpc[k] = "returned"
\* Some Close() call has started.
CloseCalled == \E k \in Closer : cpc[k] # "idle"

(* ------------------------- Listener.Accept ----------------------------- *)

\* case <-l.closed: return nil, os.ErrClosed
AcceptClosed ==
    /\ closed
    /\ lastAccept' = [conn |-> NoConn, err |-> TRUE,
                      closeReturned |-> CloseReturned]
    /\ UNCHANGED <<conns, delivered>>

\* A receive that returns the head of the queue and leaves it there.
AcceptConnNoDequeue ==
    /\ conns # <<>>
    /\ lastAccept' = [conn |-> Head(conns), err |-> FALSE,
                      closeReturned |-> CloseReturned]
    /\ UNCHANGED conns
    /\ delivered' = Append(delivered, Head(conns))

\* case c := <-l.conns: return c, nil
AcceptConn ==
    /\ conns # <<>>
    /\ lastAccept' = [conn |-> Head(conns), err |-> FALSE,
                      closeReturned |-> CloseReturned]
    /\ conns' = Tail(conns)
    /\ delivered' = Append(delivered, Head(conns))

\* The select of Accept(): it blocks while no case is ready and takes any one
\* of the ready cases.
Accept ==
    /\ ~panicked
    /\ UNCHANGED tlsVars
    /\ (AcceptClosed \/ AcceptConn)
    /\ UNCHANGED <<closed, panicked, loopPc, nconn, connVars, cpc>>

(* ------------------------- Listener.Close ------------------------------ *)

\* Close() without the select on l.closed: every call goes on to close(l.closed).
CloseSelectNoCheck(k) ==
    /\ ~panicked
    /\ UNCHANGED tlsVars
    /\ cpc[k] = "idle"
    /\ cpc' = [cpc EXCEPT ![k] = "closing"]
    /\ UNCHANGED <<closed, panicked, conns, loopPc, nconn, connVars, lastAccept, delivered>>

\* The select of Close(): case <-l.closed: return nil; default: go on to
\* close(l.closed).
CloseSelect(k) ==
    /\ ~panicked
    /\ UNCHANGED tlsVars
    /\ cpc[k] = "idle"
    /\ cpc' = [cpc EXCEPT ![k] = IF closed THEN "returned" ELSE "closing"]
    /\ UNCHANGED <<closed, panicked, conns, loopPc, nconn, connVars, lastAccept, delivered>>

\* A Close() that also drains the queue of waiting connections.
CloseChanDrains(k) ==
    /\ ~panicked
    /\ UNCHANGED tlsVars
    /\ cpc[k] = "closing"
    /\ IF closed
       THEN /\ panicked' = TRUE
            /\ cpc' = [cpc EXCEPT ![k] = "panic"]
            /\ UNCHANGED <<closed, conns>>
       ELSE /\ closed' = TRUE
            /\ cpc' = [cpc EXCEPT ![k] = "returned"]
            /\ conns' = <<>>
            /\ UNCHANGED panicked
    /\ UNCHANGED <<loopPc, nconn, connVars, lastAccept, delivered>>

\* close(l.closed); return nil.  Closing a closed channel panics.
CloseChan(k) ==
    /\ ~panicked
    /\ UNCHANGED tlsVars
    /\ cpc[k] = "closing"
    /\ IF closed
       THEN /\ panicked' = TRUE
            /\ cpc' = [cpc EXCEPT ![k] = "panic"]
            /\ UNCHANGED closed
       ELSE /\ closed' = TRUE
            /\ cpc' = [cpc EXCEPT ![k] = "returned"]
            /\ UNCHANGED panicked
    /\ UNCHANGED <<conns, loopPc, nconn, connVars, lastAccept, delivered>>

(* -------------------------- Listener.loop ------------------------------ *)

\* A loop that sniffs inline instead of `go func`: it accepts the next raw
\* connection only once every earlier sniff has returned.
LoopAcceptInline ==
    /\ ~panicked
    /\ UNCHANGED tlsVars
    /\ loopPc = "run"
    /\ nconn < MaxConns
    /\ \A c \in 1 .. nconn : pc[c] = "done"
    /\ nconn' = nconn + 1
    /\ pc' = [pc EXCEPT ![nconn + 1] = "read"]
    /\ UNCHANGED <<closed, panicked, conns, loopPc, n, b, out, recv, reads, path,
                   nValidate, nHandle, hRet, nEnq, nClose, cpc, lastAccept, delivered>>

\* l.Listener.Accept() returned a connection: go func(c, ...) with a fresh b.
LoopAccept ==
    /\ ~panicked
    /\ UNCHANGED tlsVars
    /\ loopPc = "run"
    /\ nconn < MaxConns
    /\ nconn' = nconn + 1
    /\ pc' = [pc EXCEPT ![nconn + 1] = "read"]
    /\ UNCHANGED <<closed, panicked, conns, loopPc, n, b, out, recv, reads, path,
                   nValidate, nHandle, hRet, nEnq, nClose, cpc, lastAccept, delivered>>

\* A loop that shuts the listener down on a raw Accept error.
LoopAcceptErrShutsDown ==
    /\ ~panicked
    /\ UNCHANGED tlsVars
    /\ loopPc = "run"
    /\ loopPc' = "done"
    /\ closed' = TRUE
    /\ UNCHANGED <<panicked, conns, nconn, connVars, cpc, lastAccept, delivered>>

\* A loop that returns on any error of the raw Accept, open or closed.
LoopAcceptErrReturns ==
    /\ ~panicked
    /\ UNCHANGED tlsVars
    /\ loopPc = "run"
    /\ loopPc' = "done"
    /\ UNCHANGED <<closed, panicked, conns, nconn, connVars, cpc, lastAccept, delivered>>

\* l.Listener.Accept() returned an error: return if l.closed is closed, else
\* log and continue.
LoopAcceptErr ==
    /\ ~panicked
    /\ UNCHANGED tlsVars
    /\ loopPc = "run"
    /\ loopPc' = IF closed THEN "done" ELSE "run"
    /\ UNCHANGED <<closed, panicked, conns, nconn, connVars, cpc, lastAccept, delivered>>

(* ---------------------- the sniff goroutine ---------------------------- *)

\* What one Read call can deliver into b[n:n+1]: nothing, or one byte.
Got == {<<>>} \cup {<<x>> : x \in Byte}

\* b after c.Read(b[n:n+1]) delivered `got`.
Store(c, got) == IF got = <<>> THEN b[c] ELSE [b[c] EXCEPT ![n[c] + 1] = got[1]]

\* The goroutine returns: its locals n and b are gone.
Return(c) ==
    /\ pc' = [pc EXCEPT ![c] = "done"]
    /\ n' = [n EXCEPT ![c] = 0]
    /\ b' = [b EXCEPT ![c] = MakeBuf]

\* c.Close() by the sniff goroutine.
CloseConn(c) ==
    /\ nClose' = [nClose EXCEPT ![c] = @ + 1]
    /\ recv' = [recv EXCEPT ![c] = <<>>]

\* select { case <-l.closed: c.Close(); default: l.conns <- utils.RewindConn(c, read) }
\* return
\* The default case evaluates RewindConn and then waits at the send (pc "send").
\* pos and buf are n and b, and got is what the last Read delivered.
SelectDeliver(c, read, pos, buf, got) ==
    IF closed
    THEN /\ CloseConn(c)
         /\ Return(c)
         /\ UNCHANGED out
    ELSE /\ pc' = [pc EXCEPT ![c] = "send"]
         /\ out' = [out EXCEPT ![c] = RewindConn(c, read)]
         /\ n' = [n EXCEPT ![c] = pos]
         /\ b' = [b EXCEPT ![c] = buf]
         /\ recv' = [recv EXCEPT ![c] = @ \o got]
         /\ UNCHANGED nClose

\* A check that rewinds only the header b[:trojan.HeaderLen] of a connection
\* that does not validate.
CheckConnHeaderOnly(c, buf, got) ==
    /\ nValidate' = [nValidate EXCEPT ![c] = @ + 1]
    /\ IF ~Validate(SubSeq(buf, 1, HeaderLen))
       THEN /\ SelectDeliver(c, SubSeq(buf, 1, HeaderLen), BufLen, buf, got)
            /\ path' = [path EXCEPT ![c] = "invalid"]
            /\ UNCHANGED nHandle
       ELSE /\ pc' = [pc EXCEPT ![c] = "handle"]
            /\ nHandle' = [nHandle EXCEPT ![c] = @ + 1]
            /\ path' = [path EXCEPT ![c] = "valid"]
            /\ n' = [n EXCEPT ![c] = BufLen]
            /\ b' = [b EXCEPT ![c] = buf]
            /\ recv' = [recv EXCEPT ![c] = @ \o got]
            /\ UNCHANGED <<out, nClose>>

\* After the loop: up.Validate(b[:trojan.HeaderLen]).  Not ok: the select that
\* delivers b.  Ok: defer c.Close() and the call of l.Proxy.Handle.
CheckConn(c, buf, got) ==
    /\ nValidate' = [nValidate EXCEPT ![c] = @ + 1]
    /\ IF ~Validate(SubSeq(buf, 1, HeaderLen))
       THEN /\ SelectDeliver(c, buf, BufLen, buf, got)
            /\ path' = [path EXCEPT ![c] = "invalid"]
            /\ UNCHANGED nHandle
       ELSE /\ pc' = [pc EXCEPT ![c] = "handle"]
            /\ nHandle' = [nHandle EXCEPT ![c] = @ + 1]
            /\ path' = [path EXCEPT ![c] = "valid"]
            /\ n' = [n EXCEPT ![c] = BufLen]
            /\ b' = [b EXCEPT ![c] = buf]
            /\ recv' = [recv EXCEPT ![c] = @ \o got]
            /\ UNCHANGED <<out, nClose>>

\* n += 1 and the loop test n < trojan.HeaderLen+2: the next Read, or the end of
\* the loop and the check of the header.
NextPos(c, buf, got) ==
    IF n[c] + 1 < BufLen
    THEN /\ n' = [n EXCEPT ![c] = @ + 1]
         /\ b' = [b EXCEPT ![c] = buf]
         /\ recv' = [recv EXCEPT ![c] = @ \o got]
         /\ UNCHANGED <<pc, out, path, nValidate, nHandle, nClose>>
    ELSE CheckConn(c, buf, got)

\* c.Read returned (1, nil) with byte x.
ReadByte(c, x) ==
    /\ ~panicked
    /\ UNCHANGED tlsVars
    /\ pc[c] = "read"
    /\ reads' = [reads EXCEPT ![c] = @ + 1]
    /\ IF x = LF /\ n[c] < HeaderLen + 1
       THEN /\ SelectDeliver(c, SubSeq(Store(c, <<x>>), 1, n[c] + 1), n[c], Store(c, <<x>>), <<x>>)
            /\ path' = [path EXCEPT ![c] = "lf"]
            /\ UNCHANGED <<nValidate, nHandle>>
       ELSE NextPos(c, Store(c, <<x>>), <<x>>)
    /\ UNCHANGED <<closed, panicked, conns, loopPc, nconn, hRet, nEnq, cpc, lastAccept,
                   delivered>>

\* A zero-byte read that is retried at the same position: n stays, and the
\* number of Read calls is not bounded by the length of the buffer.
ReadZeroRetry(c) ==
    /\ ~panicked
    /\ UNCHANGED tlsVars
    /\ pc[c] = "read"
    /\ reads' = [reads EXCEPT ![c] = @ + 1]
    /\ UNCHANGED <<pc, n, b, out, recv, path, nValidate, nHandle, nClose>>
    /\ UNCHANGED <<closed, panicked, conns, loopPc, nconn, hRet, nEnq, cpc, lastAccept,
                   delivered>>

\* c.Read returned (0, nil): `if nr == 0 { continue }`.  The continue of a Go
\* for statement runs the post statement n += 1 before the loop test.
ReadZero(c) ==
    /\ ~panicked
    /\ UNCHANGED tlsVars
    /\ pc[c] = "read"
    /\ reads' = [reads EXCEPT ![c] = @ + 1]
    /\ NextPos(c, b[c], <<>>)
    /\ UNCHANGED <<closed, panicked, conns, loopPc, nconn, hRet, nEnq, cpc, lastAccept,
                   delivered>>

\* A Read that treats io.EOF like any other error: the bytes read so far are
\* rewound and sent to the queue.
ReadEOFDelivers(c) ==
    /\ ~panicked
    /\ UNCHANGED tlsVars
    /\ pc[c] = "read"
    /\ reads' = [reads EXCEPT ![c] = @ + 1]
    /\ path' = [path EXCEPT ![c] = "eof"]
    /\ out' = [out EXCEPT ![c] = RewindConn(c, SubSeq(b[c], 1, n[c] + 1))]
    /\ pc' = [pc EXCEPT ![c] = "send"]
    /\ UNCHANGED <<closed, panicked, conns, loopPc, nconn, n, b, recv, nValidate, nHandle,
                   hRet, nEnq, nClose, cpc, lastAccept, delivered>>

\* c.Read returned (0, io.EOF): c.Close(); return.
ReadEOF(c) ==
    /\ ~panicked
    /\ UNCHANGED tlsVars
    /\ pc[c] = "read"
    /\ reads' = [reads EXCEPT ![c] = @ + 1]
    /\ path' = [path EXCEPT ![c] = "eof"]
    /\ CloseConn(c)
    /\ Return(c)
    /\ UNCHANGED <<closed, panicked, conns, loopPc, nconn, out, nValidate, nHandle, hRet,
                   nEnq, cpc, lastAccept, delivered>>

\* c.Read returned an error that is not io.EOF, having delivered `got`:
\* l.conns <- utils.RewindConn(c, b[:n+1]); return.  No select on l.closed.
ReadErr(c, got) ==
    /\ ~panicked
    /\ UNCHANGED tlsVars
    /\ pc[c] = "read"
    /\ reads' = [reads EXCEPT ![c] = @ + 1]
    /\ path' = [path EXCEPT ![c] = "err"]
    /\ b' = [b EXCEPT ![c] = Store(c, got)]
    /\ recv' = [recv EXCEPT ![c] = @ \o got]
    /\ out' = [out EXCEPT ![c] = RewindConn(c, SubSeq(Store(c, got), 1, n[c] + 1))]
    /\ pc' = [pc EXCEPT ![c] = "send"]
    /\ UNCHANGED <<closed, panicked, conns, loopPc, nconn, n, nValidate, nHandle, hRet,
                   nEnq, nClose, cpc, lastAccept, delivered>>

\* l.Proxy.Handle returned (e is "nil" or "err"); the error is only logged; the
\* deferred c.Close() runs.
HandleReturn(c, e) ==
    /\ ~panicked
    /\ UNCHANGED tlsVars
    /\ pc[c] = "handle"
    /\ hRet' = [hRet EXCEPT ![c] = e]
    /\ CloseConn(c)
    /\ Return(c)
    /\ UNCHANGED <<closed, panicked, conns, loopPc, nconn, out, reads, path, nValidate,
                   nHandle, nEnq, cpc, lastAccept, delivered>>

\* A send that is not followed by return: the goroutine goes on to c.Close().
SendNoReturn(c) ==
    /\ ~panicked
    /\ UNCHANGED tlsVars
    /\ pc[c] = "send"
    /\ Len(conns) < QueueCap
    /\ conns' = Append(conns, out[c])
    /\ nEnq' = [nEnq EXCEPT ![c] = @ + 1]
    /\ out' = [out EXCEPT ![c] = NoConn]
    /\ CloseConn(c)
    /\ Return(c)
    /\ UNCHANGED <<closed, panicked, loopPc, nconn, reads, path, nValidate,
                   nHandle, hRet, cpc, lastAccept, delivered>>

\* The send l.conns <- ... completes (it waits while the channel is full), and
\* the goroutine returns.
Send(c) ==
    /\ ~panicked
    /\ UNCHANGED tlsVars
    /\ pc[c] = "send"
    /\ Len(conns) < QueueCap
    /\ conns' = Append(conns, out[c])
    /\ nEnq' = [nEnq EXCEPT ![c] = @ + 1]
    /\ out' = [out EXCEPT ![c] = NoConn]
    /\ Return(c)
    /\ UNCHANGED <<closed, panicked, loopPc, nconn, recv, reads, path, nValidate,
                   nHandle, hRet, nClose, cpc, lastAccept, delivered>>

\* One step of the sniff goroutine of connection c.
Sniff(c) ==
    \/ \E x \in Byte : ReadByte(c, x)
    \/ ReadZero(c)
    \/ ReadEOF(c)
    \/ \E got \in Got : ReadErr(c, got)
    \/ \E e \in {"nil", "err"} : HandleReturn(c, e)
    \/ Send(c)

(* --------------------------- specification ----------------------------- *)

Next ==
    \/ Accept
    \/ \E k \in Closer : CloseSelect(k)
    \/ \E k \in Closer : CloseChan(k)
    \/ LoopAccept
    \/ LoopAcceptErr
    \/ \E c \in Conn : \E x \in Byte : ReadByte(c, x)
    \/ \E c \in Conn : ReadZero(c)
    \/ \E c \in Conn : ReadEOF(c)
    \/ \E c \in Conn : \E got \in Got : ReadErr(c, got)
    \/ \E c \in Conn : \E e \in {"nil", "err"} : HandleReturn(c, e)
    \/ \E c \in Conn : Send(c)

Spec == Init /\ [][Next]_vars

\* Scheduling: a goroutine that can take a step eventually takes it (reads
\* return, Handle returns, a send into a channel with room completes), a
\* Close() call that started finishes, and the caller of the wrapped listener
\* keeps calling Accept() while the listener is open.
Fairness ==
    /\ \A c \in Conn : WF_vars(Sniff(c))
    /\ \A k \in Closer : WF_vars(CloseChan(k))
    /\ WF_vars(~closed /\ Accept)

FairSpec == Spec /\ Fairness

(* ----------------- utils.RewindConn on a *tls.Conn ---------------------- *)

\* bytes.Reader.Len: the unread bytes; bytes.Reader.Size: the whole content.
ReaderLen(r) == Len(r.s) - r.i
ReaderSize(r) == Len(r.s)
\* What reading a bytes.Reader to its end yields.
Unread(r) == SubSeq(r.s, r.i + 1, Len(r.s))

\* The decrypted records a peer can send.
Records == UNION {[1 .. k -> Byte] : k \in 1 .. MaxRecord}

\* The *tls.Conn branch of RewindConn: with buffered <= size, input.Seek(0, 0);
\* otherwise buf = read followed by the unread bytes of input, input.Reset(buf).
RewindTLS(input, read) ==
    LET size == ReaderSize(input)
        buffered == Len(read)
    IN  IF buffered <= size
        THEN [s |-> input.s, i |-> 0]
        ELSE [s |-> read \o Unread(input), i |-> 0]

\* A one-byte Read of the *tls.Conn with input exhausted: the next record
\* replaces the content of input, and its first byte is read.
TlsRefillRead(rec) ==
    /\ tlsPc = "reading"
    /\ Len(tlsRead) < BufLen
    /\ ReaderLen(tlsInput) = 0
    /\ tlsInput' = [s |-> rec, i |-> 1]
    /\ tlsRead' = Append(tlsRead, rec[1])
    /\ UNCHANGED <<tlsPc, tlsOld, vars>>

\* A one-byte Read served from input.
TlsBufferedRead ==
    /\ tlsPc = "reading"
    /\ Len(tlsRead) < BufLen
    /\ ReaderLen(tlsInput) > 0
    /\ tlsInput' = [tlsInput EXCEPT !.i = @ + 1]
    /\ tlsRead' = Append(tlsRead, tlsInput.s[tlsInput.i + 1])
    /\ UNCHANGED <<tlsPc, tlsOld, vars>>

\* RewindConn(tlsConn, read) with read the bytes read so far.
TlsRewind ==
    /\ tlsPc = "reading"
    /\ tlsOld' = tlsInput
    /\ tlsInput' = RewindTLS(tlsInput, tlsRead)
    /\ tlsPc' = "rewound"
    /\ UNCHANGED <<tlsRead, vars>>

RewindNext ==
    \/ \E rec \in Records : TlsRefillRead(rec)
    \/ TlsBufferedRead
    \/ TlsRewind

\* One *tls.Conn read byte by byte and then rewound; the listener stays idle.
SpecRewind == Init /\ [][RewindNext]_tlsVars

(* ------------------------------ claims --------------------------------- *)

\* The connections that have left the sniffer through l.conns: in the channel
\* or already returned by Accept().
Rewound == {conns[i] : i \in 1 .. Len(conns)} \cup {delivered[i] : i \in 1 .. Len(delivered)}

\* C1: every connection returned by Accept() replays exactly the bytes the
\* sniff goroutine received from the peer, in order, nothing added or dropped.
C1_ReplayExact == \A i \in 1 .. Len(delivered) : delivered[i].r = recv[delivered[i].conn]

\* The three terminal fates of a connection.
Forwarded(c) == nHandle[c] > 0
Enqueued(c) == nEnq[c] > 0
ClosedDirectly(c) == nClose[c] > 0 /\ nHandle[c] = 0

\* C2: a connection has at most one fate among forwarded, enqueued and closed
\* directly, each at most once, and once it is enqueued its sniff goroutine
\* never reads, closes or forwards it.
C2_AtMostOneFate ==
    /\ [](\A c \in Conn :
            /\ ~(Forwarded(c) /\ Enqueued(c))
            /\ ~(Forwarded(c) /\ ClosedDirectly(c))
            /\ ~(Enqueued(c) /\ ClosedDirectly(c))
            /\ nHandle[c] <= 1 /\ nEnq[c] <= 1 /\ nClose[c] <= 1)
    /\ [][\A c \in Conn :
            Enqueued(c) => /\ reads'[c] = reads[c]
                           /\ nClose'[c] = nClose[c]
                           /\ nHandle'[c] = nHandle[c]]_vars

\* C2 witness: one connection was enqueued and another was forwarded and closed.
C2_Witness ==
    \E c1, c2 \in Conn : Enqueued(c1) /\ Forwarded(c2) /\ pc[c2] = "done" /\ nClose[c2] = 1

\* C3: every accepted raw connection eventually reaches a terminal fate (its
\* sniff goroutine ends), unless the process dies first.
C3_EveryConnTerminates ==
    \A c \in Conn : (pc[c] # "none") ~> (pc[c] = "done" \/ panicked)

\* C4: an Accept() call made after Close() returned returns the closed error
\* and no connection.
C4_AcceptFailsAfterClose ==
    lastAccept.closeReturned => (lastAccept.err /\ lastAccept.conn = NoConn)

\* A Close() call starts: its select is evaluated.
CloseStarts(k) == cpc[k] = "idle" /\ cpc'[k] # "idle"
\* A Close() call that found the flag open and runs alone closes the channel.
CloseAloneEnds(k) ==
    /\ cpc[k] = "closing" /\ cpc'[k] # "closing"
    /\ \A j \in Closer \ {k} : cpc[j] = "idle"

\* C5: the closed flag starts open and never goes back to open; the first
\* Close() sets it and returns nil; a Close() called when it is set returns nil
\* and changes nothing.
C5_CloseIdempotentMonotonic ==
    /\ [](~CloseCalled => ~closed)
    /\ [][/\ closed => closed'
          /\ \A k \in Closer :
                /\ (CloseAloneEnds(k) =>
                        closed' /\ cpc'[k] = "returned" /\ ~panicked')
                /\ (CloseStarts(k) /\ closed =>
                        /\ cpc'[k] = "returned"
                        /\ UNCHANGED <<closed, panicked, conns, loopPc, nconn, connVars,
                                       lastAccept, delivered>>)]_vars

\* C5 witness: every caller of Close() has returned, so all but the first found
\* the flag set.
C5_Witness == closed /\ ~panicked /\ \A k \in Closer : cpc[k] = "returned"

\* C6: concurrent Close() calls never panic and all return nil.
C6_CloseRaceSafe == ~panicked /\ \A k \in Closer : cpc[k] # "panic"

\* C7: Accept() returns a connection and no error, or no connection and the
\* closed error, and the error only after Close() was called.
C7_AcceptErrorOnlyClosed ==
    /\ lastAccept.err => (closed /\ CloseCalled /\ lastAccept.conn = NoConn)
    /\ (lastAccept # NoAccept /\ ~lastAccept.err) => lastAccept.conn.conn \in Conn

\* C7 witness: sniffing ended in end-of-stream and in a read error, and
\* Accept() returned the closed error (after Close()).
C7_Witness ==
    /\ lastAccept.err
    /\ \E c1, c2 \in Conn : path[c1] = "eof" /\ path[c2] = "err"

\* C8: a connection whose stream opens with a valid credential, CR, LF is
\* forwarded after exactly HeaderLen+2 bytes were consumed, is never enqueued,
\* and is closed exactly once, after Handle returned.  The stream opens that way
\* when no read failed and the bytes received are a prefix of GoodOpening.
C8_ValidHeaderForwarded ==
    \A c \in Conn :
        /\ (pc[c] \in {"send", "handle"} /\ path[c] # "err" /\ IsPrefix(recv[c], GoodOpening))
              => (pc[c] = "handle" /\ recv[c] = GoodOpening)
        /\ path[c] = "valid" =>
              /\ nHandle[c] = 1 /\ nEnq[c] = 0
              /\ (pc[c] = "handle" => nClose[c] = 0 /\ hRet[c] = "none")
              /\ (pc[c] = "done" => nClose[c] = 1 /\ hRet[c] \in {"nil", "err"})

\* C9: on the early line-feed path the goroutine stops at the line-feed at
\* position n <= HeaderLen, never validates or forwards, and (listener open)
\* delivers the connection rewound with exactly the n+1 bytes read so far.
C9_EarlyLineFeed ==
    \A c \in Conn :
        (pc[c] = "send" /\ path[c] = "lf") =>
            /\ n[c] <= HeaderLen
            /\ reads[c] = n[c] + 1
            /\ out[c].r = recv[c]
            /\ Len(recv[c]) = n[c] + 1
            /\ recv[c][n[c] + 1] = LF
            /\ nValidate[c] = 0 /\ nHandle[c] = 0 /\ nClose[c] = 0

\* C10: when HeaderLen+2 bytes were read and the header does not validate, the
\* connection (listener open) is rewound with all HeaderLen+2 bytes, enqueued,
\* not closed, not forwarded, and stays available to Accept().
C10_InvalidCredentialDelivered ==
    \A c \in Conn :
        (path[c] = "invalid" /\ Len(recv[c]) = BufLen) =>
            /\ ~Validate(SubSeq(recv[c], 1, HeaderLen))
            /\ nClose[c] = 0 /\ nHandle[c] = 0
            /\ pc[c] = "send" => out[c] = [conn |-> c, r |-> recv[c]]
            /\ pc[c] = "done" => [conn |-> c, r |-> recv[c]] \in Rewound

\* C10 witness: Accept() returned a connection with an invalid credential,
\* replaying its HeaderLen+2 bytes.
C10_Witness ==
    \E c \in Conn :
        /\ path[c] = "invalid" /\ Len(recv[c]) = BufLen
        /\ lastAccept.conn = [conn |-> c, r |-> recv[c]]

\* C11: after RewindConn on a *tls.Conn the connection yields exactly the
\* prefix read followed by the unread rest of the buffer, and the cursor is
\* reset in place only when the whole prefix lies in the buffer.
C11_RewindExact ==
    tlsPc = "rewound" =>
        /\ Unread(tlsInput) = tlsRead \o Unread(tlsOld)
        /\ tlsInput.s = tlsOld.s => tlsOld.i = Len(tlsRead)

\* A sniff goroutine that has started and not returned.
Running(c) == pc[c] \in {"read", "send", "handle"}

C13_ClosedDeliverCloses ==
    [][\A c \in Conn :
          (closed /\ pc[c] = "read" /\ pc'[c] # "read") =>
              (pc'[c] # "send" /\ out'[c] = NoConn /\
               (path'[c] \in {"lf", "invalid", "err"} => nClose'[c] = 1))]_vars

\* C14: a read that returns zero bytes and no error is retried at the same
\* position: while reading, the position is the number of bytes received and
\* the buffer holds them, and the header handed to Validate is the first
\* HeaderLen bytes received.
C14_ZeroReadSamePosition ==
    \A c \in Conn :
        /\ pc[c] = "read" =>
              /\ n[c] = Len(recv[c])
              /\ SubSeq(b[c], 1, n[c]) = recv[c]
        /\ (pc[c] \in {"send", "handle"} /\ path[c] \in {"invalid", "valid"}) =>
              /\ Len(recv[c]) >= HeaderLen
              /\ SubSeq(b[c], 1, HeaderLen) = SubSeq(recv[c], 1, HeaderLen)

\* C15: a connection whose Read returns io.EOF is closed and its goroutine
\* ends: it is never enqueued, forwarded or validated, and the step that sees
\* the EOF leaves the queue as it was.
C15_EOFCloses ==
    /\ [](\A c \in Conn :
            path[c] = "eof" =>
                /\ pc[c] = "done"
                /\ nClose[c] = 1
                /\ nEnq[c] = 0 /\ nHandle[c] = 0 /\ nValidate[c] = 0
                /\ out[c] = NoConn
                /\ \A i \in 1 .. Len(conns) : conns[i].conn # c
                /\ \A i \in 1 .. Len(delivered) : delivered[i].conn # c)
    /\ [][\A c \in Conn :
            (path[c] # "eof" /\ path'[c] = "eof") => conns' = conns]_vars

\* EOF at the last position, HeaderLen+1, after bytes were read, with another
\* connection waiting in the queue.
C15_Witness ==
    \E c \in Conn :
        /\ path[c] = "eof"
        /\ reads[c] = BufLen
        /\ conns # <<>>

\* C16: the dispatch loop ends only on a raw Accept error seen while the
\* listener is closed: an error while it is open leaves the loop running, and
\* once the loop has ended no connection is accepted and no goroutine started.
C16_LoopEndsOnlyClosed ==
    /\ [](loopPc = "done" => closed)
    /\ [][(loopPc = "run" /\ ~closed) => loopPc' = "run"]_vars
    /\ [][(loopPc = "run" /\ loopPc' = "done") =>
             (closed /\ UNCHANGED <<closed, conns, nconn, connVars>>)]_vars
    /\ [][loopPc = "done" =>
             /\ loopPc' = "done"
             /\ nconn' = nconn
             /\ \A c \in Conn : pc[c] = "none" => pc'[c] = "none"]_vars
    /\ [](~panicked =>
             /\ (loopPc = "run" /\ ~closed) => ENABLED (LoopAcceptErr /\ loopPc' = "run")
             /\ (loopPc = "run" /\ closed) => ENABLED (LoopAcceptErr /\ loopPc' = "done")
             /\ loopPc = "done" => ~ENABLED (LoopAccept \/ LoopAcceptErr))

\* The loop has ended after Close(), having accepted a connection before,
\* and a slot for a further raw connection is left unused.
C16_Witness ==
    /\ loopPc = "done"
    /\ closed
    /\ nconn >= 1
    /\ nconn < MaxConns

\* The connections handed to the queue so far, oldest first: those Accept()
\* returned, then those still waiting.
Handed == delivered \o conns

Route(buf) ==
    IF \E i \in 1 .. HeaderLen + 1 : buf[i] = LF
    THEN "lf"
    ELSE IF Validate(SubSeq(buf, 1, HeaderLen)) THEN "valid" ELSE "invalid"

\* C18: only line feed is special-cased: the route of a connection is fixed by
\* whether LF occurs at a position 0..HeaderLen and by Validate on the first
\* HeaderLen bytes; the bytes at HeaderLen and HeaderLen+1 are never compared
\* with CR LF, so a connection whose first HeaderLen bytes validate is
\* forwarded whatever those two bytes are, unless the first of them is LF.
C18_OnlyLineFeedSpecial ==
    \A c \in Conn :
        (pc[c] \in {"send", "handle"} /\ path[c] # "err") =>
            /\ path[c] = Route(b[c])
            /\ pc[c] = "handle" <=> path[c] = "valid"
            /\ (/\ Len(recv[c]) >= HeaderLen + 1
                /\ Validate(SubSeq(recv[c], 1, HeaderLen))
                /\ \A i \in 1 .. HeaderLen + 1 : recv[c][i] # LF) => pc[c] = "handle"

\* C19: the sniffer makes at most HeaderLen+2 Read calls on a connection, and
\* by the last of them it has left the read loop for one of its outcomes.
C19_ReadsBounded ==
    /\ [](\A c \in Conn :
            /\ reads[c] <= BufLen
            /\ reads[c] = BufLen => pc[c] # "read"
            /\ pc[c] = "read" => reads[c] = n[c])
    /\ [][\A c \in Conn :
            /\ reads'[c] \in {reads[c], reads[c] + 1}
            /\ reads'[c] # reads[c] => pc[c] = "read"
            /\ pc[c] \in {"send", "handle", "done"} => pc'[c] # "read"]_vars

\* HeaderLen+2 Read calls that delivered no byte at all: the goroutine has
\* left the loop and waits to deliver.
C19_Witness ==
    \E c \in Conn :
        /\ reads[c] = BufLen
        /\ recv[c] = <<>>
        /\ pc[c] = "send"
        /\ path[c] = "invalid"

\* C20: Close() changes nothing but the closed flag: it leaves the queue, the
\* dispatch loop and every sniff goroutine as they were, and afterwards the
\* loop still accepts raw connections, which are sniffed and, if the header
\* validates, handed to the Forwarder.
C20_CloseOnlySetsFlag ==
    /\ [][(closed' # closed \/ cpc' # cpc) =>
             UNCHANGED <<conns, loopPc, nconn, connVars, lastAccept, delivered>>]_vars
    /\ [](closed /\ ~panicked =>
             /\ (loopPc = "run" /\ nconn < MaxConns) => ENABLED LoopAccept
             /\ \A c \in Conn :
                   /\ pc[c] = "read" => \A x \in Byte : ENABLED ReadByte(c, x)
                   /\ (pc[c] = "read" /\ n[c] = BufLen - 1 /\ Validate(SubSeq(b[c], 1, HeaderLen))) =>
                         ENABLED (\E x \in Byte : ReadByte(c, x) /\ pc'[c] = "handle")
                   /\ pc[c] = "handle" => ENABLED HandleReturn(c, "nil"))

\* Close() has returned, the loop still runs with a connection waiting in the
\* queue, and a connection is with the Forwarder.
C20_Witness ==
    /\ closed
    /\ CloseReturned
    /\ ~panicked
    /\ loopPc = "run"
    /\ conns # <<>>
    /\ \E c \in Conn : pc[c] = "handle" /\ nHandle[c] = 1

====
